---- MODULE Spec2Model ----
(***************************************************************************)
(* The selection state engine of the ToolsManager web part.                *)
(*                                                                         *)
(* Four variants of the component are modelled side by side:               *)
(*   "onedrive"  src/src/webparts/toolsManager/components/ToolsManager.tsx *)
(*               (selection saved by an effect keyed on selectedTools)     *)
(*   "file"      src/unnamed/part_001                                      *)
(*               (selection saved by explicit saveToolsToFile calls)       *)
(*   "static"    src/unnamed/part_002                                      *)
(*               (selection and catalog are literals, nothing is stored)   *)
(*   "list"      src/unnamed/part_003                                      *)
(*               (selection is a literal, the catalog is fetched, nothing  *)
(*               is stored)                                                *)
(* The handlers moveItem / addTool / removeTool are textually the same in  *)
(* all; they differ in how a state update reaches the store.               *)
(*                                                                         *)
(* JavaScript arrays are 0-based; sequences here are 1-based, so the       *)
(* element at JavaScript index i is arr[i + 1].                            *)
(***************************************************************************)
EXTENDS Integers, Sequences, FiniteSets, Bags, TLC

(***************************************************************************)
(* Bounds of the model.                                                    *)
(***************************************************************************)
\* handler calls of one session that update the selection
MaxOps == 3

Min(a, b) == IF a < b THEN a ELSE b
Max(a, b) == IF a > b THEN a ELSE b

(***************************************************************************)
(* Tools.  ITool = {id, title, icon, url}; icon and url never influence    *)
(* the engine and are left out.  `undefined` is the JavaScript value an    *)
(* empty splice yields; JSON.stringify writes it as null.                  *)
(***************************************************************************)
ITool(id, title) == [id |-> id, title |-> title]
undefined == [id |-> "<undefined>", title |-> "<undefined>"]
null == [id |-> "<null>", title |-> "<null>"]
IsObject(t) == t # undefined /\ t # null

\* part_001: the default tools written when the file cannot be read
defaultTools ==
  << ITool("1", "Workday"), ITool("2", "Time Mgr"), ITool("3", "Fidelity") >>

\* rows of the SharePoint list "ToolsList" (Id is a number there)
ToolsList == << [Id |-> 4, Title |-> "Workday"] >>

\* Number.prototype.toString on the row ids in use
toString(n) ==
  CASE n = 1 -> "1" [] n = 2 -> "2" [] n = 3 -> "3" [] n = 4 -> "4" [] OTHER -> "?"

\* items.map(item => ({id: item.Id.toString(), title: item.Title, ...}))
MapItems(items) ==
  [k \in 1..Len(items) |-> ITool(toString(items[k].Id), items[k].Title)]

\* a row id kept as the number it is: === never equates it with a string
numberId(n) ==
  CASE n = 1 -> "1 (number)" [] n = 2 -> "2 (number)" [] n = 3 -> "3 (number)"
    [] n = 4 -> "4 (number)" [] OTHER -> "? (number)"

\* part_003: items.map(item => ({id: item.Id, title: item.Title, ...}))
MapItemsAsIs(items) ==
  [k \in 1..Len(items) |-> ITool(numberId(items[k].Id), items[k].Title)]

(***************************************************************************)
(* The per-user store: one file, absent or holding a serialized array.     *)
(***************************************************************************)
NotFound == [exists |-> FALSE, content |-> << >>]
Found(content) == [exists |-> TRUE, content |-> content]

\* JSON text, by its structure: an array is the sequence of its values, a
\* value is null or an object with its members in the order written
JsonNull == [json |-> "null", members |-> << >>]
JsonObject(members) == [json |-> "object", members |-> members]

\* object[key] after JSON.parse: the last member of that name, or undefined
Property(value, key) ==
  LET at == { k \in 1..Len(value.members) : value.members[k][1] = key }
  IN  IF at = { } THEN "<undefined>"
      ELSE value.members[CHOOSE k \in at : \A j \in at : j <= k][2]

\* JSON.stringify that writes the ids alone
stringify_IdsOnly(tools) ==
  [k \in 1..Len(tools) |->
     IF ~IsObject(tools[k]) THEN JsonNull
     ELSE JsonObject(<< << "id", tools[k].id >> >>)]

\* JSON.stringify of an array of tools: an entry that is undefined (or
\* null) is written as null, a tool as an object of its own properties
stringify(tools) ==
  [k \in 1..Len(tools) |->
     IF ~IsObject(tools[k]) THEN JsonNull
     ELSE JsonObject(<< << "id", tools[k].id >>, << "title", tools[k].title >> >>)]

\* JSON.parse / response.json() of an array written that way
parse(content) ==
  [k \in 1..Len(content) |->
     IF content[k] = JsonNull THEN null
     ELSE ITool(Property(content[k], "id"), Property(content[k], "title"))]

\* what the user's file may hold when the session starts: nothing, or what
\* an earlier session saved
InitialStores ==
  { NotFound,
    Found(stringify(<< ITool("2", "Time Mgr"), ITool("7", "Retired Tool") >>)) }

(***************************************************************************)
(* Array.prototype.splice(start, deleteCount, ...items) on a copy.         *)
(***************************************************************************)
SpliceStart(arr, start) ==
  IF start < 0 THEN Max(Len(arr) + start, 0) ELSE Min(start, Len(arr))

SpliceCount(arr, start, deleteCount) ==
  Min(Max(deleteCount, 0), Len(arr) - SpliceStart(arr, start))

\* the array splice returns: the removed elements
SpliceRemoved(arr, start, deleteCount) ==
  SubSeq(arr, SpliceStart(arr, start) + 1,
         SpliceStart(arr, start) + SpliceCount(arr, start, deleteCount))

\* the array after the splice
SpliceResult(arr, start, deleteCount, items) ==
  SubSeq(arr, 1, SpliceStart(arr, start))
    \o items
    \o SubSeq(arr, SpliceStart(arr, start) + SpliceCount(arr, start, deleteCount) + 1,
              Len(arr))

\* const [x] = array : the first element, or undefined
First(arr) == IF Len(arr) = 0 THEN undefined ELSE arr[1]

(***************************************************************************)
(* Text.  A JavaScript string is modelled by the sequence of its           *)
(* characters; Chars spells the titles in use.                             *)
(***************************************************************************)
Upper ==
  << "A", "B", "C", "D", "E", "F", "G", "H", "I", "J", "K", "L", "M",
     "N", "O", "P", "Q", "R", "S", "T", "U", "V", "W", "X", "Y", "Z" >>
Lower ==
  << "a", "b", "c", "d", "e", "f", "g", "h", "i", "j", "k", "l", "m",
     "n", "o", "p", "q", "r", "s", "t", "u", "v", "w", "x", "y", "z" >>

Chars(title) ==
  CASE title = "Workday" -> << "W", "o", "r", "k", "d", "a", "y" >>
    [] title = "Time Mgr" -> << "T", "i", "m", "e", " ", "M", "g", "r" >>
    [] title = "Fidelity" -> << "F", "i", "d", "e", "l", "i", "t", "y" >>
    [] title = "Retired Tool" ->
         << "R", "e", "t", "i", "r", "e", "d", " ", "T", "o", "o", "l" >>
    [] title = "ATLAS Effects" ->
         << "A", "T", "L", "A", "S", " ", "E", "f", "f", "e", "c", "t", "s" >>
    [] title = "Browse Learning" ->
         << "B", "r", "o", "w", "s", "e", " ",
            "L", "e", "a", "r", "n", "i", "n", "g" >>
    [] title = "Business Cards" ->
         << "B", "u", "s", "i", "n", "e", "s", "s", " ",
            "C", "a", "r", "d", "s" >>
    [] OTHER -> << "?" >>

\* toLowerCase that leaves the text as it is
toLowerCase_AsIs(text) == text

\* String.prototype.toLowerCase
toLowerCase(text) ==
  [k \in 1..Len(text) |->
     IF \E n \in 1..26 : Upper[n] = text[k]
     THEN Lower[CHOOSE n \in 1..26 : Upper[n] = text[k]]
     ELSE text[k]]

\* String.prototype.includes
includes(text, searchString) ==
  \E i \in 0..(Len(text) - Len(searchString)) :
    SubSeq(text, i + 1, i + Len(searchString)) = searchString

(***************************************************************************)
(* The handlers as functions of the selection they close over.  Each       *)
(* returns what it does to the state:                                      *)
(*   set   - setSelectedTools was called, with `tools`                     *)
(*   threw - the handler raised a TypeError before any state update        *)
(***************************************************************************)
Update(tools) == [set |-> TRUE, tools |-> tools, threw |-> FALSE]
NoUpdate == [set |-> FALSE, tools |-> << >>, threw |-> FALSE]
Threw == [set |-> FALSE, tools |-> << >>, threw |-> TRUE]

\* what a handler's outcome makes of the selection
Apply(r, tools) == IF r.set THEN r.tools ELSE tools

\* moveItem with the two positions exchanged instead of a splice
moveItem_Swap(selectedTools, fromIndex, toIndex) ==
  IF toIndex < 0 \/ toIndex >= Len(selectedTools)
     \/ fromIndex < 0 \/ fromIndex >= Len(selectedTools)
  THEN NoUpdate
  ELSE Update([selectedTools EXCEPT ![fromIndex + 1] = selectedTools[toIndex + 1],
                                    ![toIndex + 1] = selectedTools[fromIndex + 1]])

\* moveItem that inserts the moved item without having removed it
moveItem_NoRemove(selectedTools, fromIndex, toIndex) ==
  IF toIndex < 0 \/ toIndex >= Len(selectedTools)
  THEN NoUpdate
  ELSE Update(SpliceResult(selectedTools, toIndex, 0,
                           << First(SpliceRemoved(selectedTools, fromIndex, 1)) >>))

moveItem(selectedTools, fromIndex, toIndex) ==
  IF toIndex < 0 \/ toIndex >= Len(selectedTools)
  THEN NoUpdate
  ELSE LET movedItem == First(SpliceRemoved(selectedTools, fromIndex, 1))
           newTools == SpliceResult(selectedTools, fromIndex, 1, << >>)
       IN  Update(SpliceResult(newTools, toIndex, 0, << movedItem >>))

\* index of the first entry with the id, 0 when there is none (1-based)
FindPos(tools, id) ==
  IF \E k \in 1..Len(tools) : tools[k].id = id
  THEN CHOOSE k \in 1..Len(tools) :
         /\ tools[k].id = id
         /\ \A j \in 1..(k - 1) : tools[j].id # id
  ELSE 0

\* t.id on an undefined or null entry raises a TypeError; find stops at the
\* first match, so only entries before it are read
FindThrows(tools, id) ==
  \E k \in 1..Len(tools) :
    /\ ~IsObject(tools[k])
    /\ (FindPos(tools, id) = 0 \/ k < FindPos(tools, id))

\* addTool that puts the tool in front of the selection
addTool_Prepend(selectedTools, tool) ==
  IF FindThrows(selectedTools, tool.id) THEN Threw
  ELSE IF FindPos(selectedTools, tool.id) = 0
       THEN Update(<< tool >> \o selectedTools)
       ELSE NoUpdate

\* addTool without the look-up of the id
addTool_NoCheck(selectedTools, tool) == Update(selectedTools \o << tool >>)

addTool(selectedTools, tool) ==
  IF FindThrows(selectedTools, tool.id) THEN Threw
  ELSE IF FindPos(selectedTools, tool.id) = 0
       THEN Update(selectedTools \o << tool >>)
       ELSE NoUpdate

removeTool(selectedTools, toolId) ==
  IF \E k \in 1..Len(selectedTools) : ~IsObject(selectedTools[k]) THEN Threw
  ELSE Update(SelectSeq(selectedTools, LAMBDA tool : tool.id # toolId))

(***************************************************************************)
(* State.                                                                  *)
(***************************************************************************)
VARIABLES
  variant,        \* which component is mounted: "onedrive", "file", "static"
  selectedTools,  \* useState<ITool[]>: the ordered selection
  availableTools, \* useState<ITool[]>: the catalog as fetched
  searchTerm,     \* useState(''): the text of the search box
  catalogFetch,   \* fetchAvailableTools: "idle", "pending", "done", "failed"
  store,          \* the user's file in the external store
  loadPhase,      \* the initial read: "idle" (not mounted), "sent",
                  \*   "responded", "seeding" (file variant: default PUT in
                  \*   flight), "done"; "none" where nothing is read
  loadResp,       \* the response of the initial read, once the store answered
  inflight,       \* bag of the PUT requests issued and not yet settled
  saveCalls,      \* number of PUT requests issued so far
  lastPut,        \* payload of the most recent PUT request
  faulted,        \* some call to the user's store has failed
  nOps,           \* handler calls so far that updated the selection
  last,           \* the handler call the latest step made and what it did,
                  \*   or the PUT that failed in it; NoCall otherwise
  rapid           \* selection-changing handler calls made back to back from
                  \*   a settled session (load done, no PUT in flight) with
                  \*   no PUT settled since; counted up to three

vars ==
  << variant, selectedTools, availableTools, searchTerm, catalogFetch, store,
     loadPhase, loadResp, inflight, saveCalls, lastPut, faulted, nOps, last,
     rapid >>

NoResp == [kind |-> "none", body |-> << >>]
NoCall ==
  [op |-> "none", from |-> 0, to |-> 0, tool |-> undefined, id |-> "",
   before |-> << >>, set |-> FALSE, threw |-> FALSE, calls |-> 0]

\* part_002: the literals the static variant's useState calls start from
staticSelected == defaultTools
staticAvailable ==
  << ITool("4", "ATLAS Effects"), ITool("5", "Browse Learning"),
     ITool("6", "Business Cards") >>

\* the variants that fetch, before mounting
Init ==
  /\ variant \in { "onedrive", "file", "list" }
  /\ selectedTools = IF variant = "list" THEN staticSelected ELSE << >>
  /\ availableTools = << >>
  /\ searchTerm = << >>
  /\ catalogFetch = "idle"
  /\ store \in (IF variant = "list" THEN { NotFound } ELSE InitialStores)
  /\ loadPhase = "idle"
  /\ loadResp = NoResp
  /\ inflight = EmptyBag
  /\ saveCalls = 0
  /\ lastPut = << >>
  /\ faulted = FALSE
  /\ nOps = 0
  /\ last = NoCall
  /\ rapid = 0

(***************************************************************************)
(* Writing to the store.  Both variants send the whole array,              *)
(* JSON.stringify(tools), in one PUT; nothing orders two PUTs in flight.   *)
(***************************************************************************)
PutRequest(tools, seed) == [payload |-> stringify(tools), seed |-> seed]

\* saveSelectedTools (onedrive) / saveToolsToFile (file) called k times
\* with `tools`; k is 0 or 1
IssueSaves(k, tools, seed) ==
  IF k = 0
  THEN UNCHANGED << inflight, saveCalls, lastPut >>
  ELSE /\ inflight' = inflight (+) SetToBag({ PutRequest(tools, seed) })
       /\ saveCalls' = saveCalls + 1
       /\ lastPut' = stringify(tools)

(***************************************************************************)
(* Mounting: the effects with an empty dependency list run once, and the   *)
(* onedrive variant's save effect runs for the initial selectedTools = []. *)
(***************************************************************************)
Mount ==
  /\ loadPhase = "idle"
  /\ loadPhase' = IF variant = "list" THEN "none" ELSE "sent"
  /\ catalogFetch' = IF variant = "file" THEN catalogFetch ELSE "pending"
  /\ IssueSaves(IF variant = "onedrive" THEN 1 ELSE 0, selectedTools, FALSE)
  /\ last' = NoCall
  /\ UNCHANGED << variant, searchTerm, selectedTools, availableTools, store, loadResp,
                  faulted, nOps, rapid >>

\* the catalog fetch whose failure resets the selection with the catalog
FetchSettle_ResetsAll(ok) ==
  /\ catalogFetch = "pending"
  /\ IF ok
     THEN /\ availableTools' = IF variant = "list"
                                THEN MapItemsAsIs(ToolsList)
                                ELSE MapItems(ToolsList)
          /\ catalogFetch' = "done"
          /\ UNCHANGED selectedTools
     ELSE /\ availableTools' = << >>
          /\ catalogFetch' = "failed"
          /\ selectedTools' = << >>
  /\ last' = NoCall
  /\ UNCHANGED << variant, searchTerm, store, loadPhase, loadResp, inflight,
                  saveCalls, lastPut, faulted, nOps, rapid >>

\* fetchAvailableTools (part_003: fetchTools) settles: the rows are mapped,
\* or the error is logged
FetchSettle(ok) ==
  /\ catalogFetch = "pending"
  /\ IF ok
     THEN /\ availableTools' = IF variant = "list"
                                THEN MapItemsAsIs(ToolsList)
                                ELSE MapItems(ToolsList)
          /\ catalogFetch' = "done"
     ELSE /\ UNCHANGED availableTools
          /\ catalogFetch' = "failed"
  /\ last' = NoCall
  /\ UNCHANGED << variant, searchTerm, selectedTools, store, loadPhase, loadResp, inflight,
                  saveCalls, lastPut, faulted, nOps, rapid >>

(***************************************************************************)
(* The initial read of the user's file.                                    *)
(***************************************************************************)
\* the answer to a GET of the file
Respond(file, fails) ==
  IF fails THEN [kind |-> "error", body |-> << >>]
  ELSE IF file.exists THEN [kind |-> "found", body |-> parse(file.content)]
  ELSE [kind |-> "notfound", body |-> << >>]

\* the store answers the GET from what it holds at that moment, or fails
LoadRespond(fails) ==
  /\ loadPhase = "sent"
  /\ loadPhase' = "responded"
  /\ loadResp' = Respond(store, fails)
  /\ faulted' = (faulted \/ fails)
  /\ last' = NoCall
  /\ UNCHANGED << variant, searchTerm, selectedTools, availableTools, catalogFetch, store,
                  inflight, saveCalls, lastPut, nOps, rapid >>

\* ToolsManager.tsx fetchSelectedTools: the continuation after the GET.
\* Each setSelectedTools passes a new array, so the save effect runs again.
fetchSelectedTools ==
  /\ variant = "onedrive"
  /\ loadPhase = "responded"
  /\ loadPhase' = "done"
  /\ CASE loadResp.kind = "found" ->
            /\ selectedTools' = loadResp.body
            /\ IssueSaves(1, loadResp.body, FALSE)
       [] loadResp.kind = "notfound" ->
            /\ selectedTools' = << >>
            /\ IssueSaves(1, << >>, FALSE)
       [] OTHER ->
            /\ UNCHANGED selectedTools
            /\ IssueSaves(0, << >>, FALSE)
  /\ last' = NoCall
  /\ rapid' = 0
  /\ UNCHANGED << variant, searchTerm, availableTools, catalogFetch, store, loadResp,
                  faulted, nOps >>

\* part_001 handleToolsFile: the continuation after the GET; any failure of
\* the read takes the inner catch, which PUTs the defaults and awaits that
handleToolsFile ==
  /\ variant = "file"
  /\ loadPhase = "responded"
  /\ IF loadResp.kind = "found"
     THEN /\ selectedTools' = loadResp.body
          /\ loadPhase' = "done"
          /\ IssueSaves(0, << >>, FALSE)
     ELSE /\ UNCHANGED selectedTools
          /\ loadPhase' = "seeding"
          /\ IssueSaves(1, defaultTools, TRUE)
  /\ last' = NoCall
  /\ rapid' = 0
  /\ UNCHANGED << variant, searchTerm, availableTools, catalogFetch, store, loadResp,
                  faulted, nOps >>

\* what `last` records of a PUT that failed
SaveFailed(tools) == [NoCall EXCEPT !.op = "saveFailed", !.before = tools]

\* a failed PUT had the selection fall back to what the file holds
SaveSettle_RollsBack(r, ok) ==
  /\ BagIn(r, inflight)
  /\ inflight' = inflight (-) SetToBag({ r })
  /\ store' = IF ok THEN Found(r.payload) ELSE store
  /\ faulted' = (faulted \/ ~ok)
  /\ loadPhase' = IF r.seed THEN "done" ELSE loadPhase
  /\ selectedTools' = IF ~ok THEN parse(store.content)
                      ELSE IF r.seed THEN defaultTools ELSE selectedTools
  /\ last' = IF ok THEN NoCall ELSE SaveFailed(selectedTools)
  /\ rapid' = 0
  /\ UNCHANGED << variant, searchTerm, availableTools, catalogFetch, loadResp,
                  saveCalls, lastPut, nOps >>

\* a PUT settles: the store replaces the whole file, or the request fails
\* and the catch logs it.  The file variant's default PUT is awaited inside
\* handleToolsFile: setSelectedTools(defaultTools) runs only after it
\* succeeded, and its failure is caught by the outer catch.
SaveSettle(r, ok) ==
  /\ BagIn(r, inflight)
  /\ inflight' = inflight (-) SetToBag({ r })
  /\ store' = IF ok THEN Found(r.payload) ELSE store
  /\ faulted' = (faulted \/ ~ok)
  /\ IF r.seed
     THEN /\ loadPhase' = "done"
          /\ selectedTools' = IF ok THEN defaultTools ELSE selectedTools
     ELSE UNCHANGED << loadPhase, selectedTools >>
  /\ last' = IF ok THEN NoCall ELSE SaveFailed(selectedTools)
  /\ rapid' = 0
  /\ UNCHANGED << variant, searchTerm, availableTools, catalogFetch, loadResp,
                  saveCalls, lastPut, nOps >>

(***************************************************************************)
(* The user's handlers.                                                    *)
(***************************************************************************)
Range(seq) == { seq[k] : k \in 1..Len(seq) }

\* part_001 dragDropEvents.onDrop (the other variants have no drag and drop)
onDrop(tools, item, dropIndex) ==
  IF FindThrows(tools, item.id) THEN Threw
  ELSE LET draggedItemIndex == FindPos(tools, item.id) - 1
           draggedItem == First(SpliceRemoved(tools, draggedItemIndex, 1))
           newTools == SpliceResult(tools, draggedItemIndex, 1, << >>)
       IN  IF draggedItemIndex # dropIndex
           THEN Update(SpliceResult(newTools, dropIndex, 0, << draggedItem >>))
           ELSE NoUpdate

\* a handler ran with outcome r.  A state update re-renders; the onedrive
\* variant's save effect then runs because selectedTools is a new array,
\* the file variant saves where the handler calls saveToolsToFile, the
\* static variant never saves.
Handle(call, r, callsSave) ==
  LET k == IF r.set /\ (variant = "onedrive" \/ (variant = "file" /\ callsSave))
           THEN 1 ELSE 0
  IN  /\ loadPhase # "idle"
      /\ r.set => nOps < MaxOps
      /\ selectedTools' = Apply(r, selectedTools)
      /\ IssueSaves(k, r.tools, FALSE)
      /\ nOps' = IF r.set THEN nOps + 1 ELSE nOps
      /\ last' = [call EXCEPT !.before = selectedTools, !.set = r.set,
                              !.threw = r.threw, !.calls = k]
      /\ rapid' =
           IF r.set /\ r.tools # selectedTools
           THEN IF rapid > 0 \/ (inflight = EmptyBag /\ loadPhase = "done")
                THEN Min(rapid + 1, 3)
                ELSE 0
           ELSE 0
      /\ UNCHANGED << variant, searchTerm, availableTools, catalogFetch, store, loadPhase,
                      loadResp, faulted >>

MoveItem(fromIndex, toIndex) ==
  Handle([NoCall EXCEPT !.op = "moveItem", !.from = fromIndex, !.to = toIndex],
         moveItem(selectedTools, fromIndex, toIndex), TRUE)

AddTool(tool) ==
  Handle([NoCall EXCEPT !.op = "addTool", !.tool = tool, !.id = tool.id],
         addTool(selectedTools, tool), TRUE)

RemoveTool(toolId) ==
  Handle([NoCall EXCEPT !.op = "removeTool", !.id = toolId],
         removeTool(selectedTools, toolId), TRUE)

OnDrop(item, dropIndex) ==
  /\ variant = "file"
  /\ Handle([NoCall EXCEPT !.op = "onDrop", !.tool = item, !.id = item.id,
                           !.to = dropIndex],
            onDrop(selectedTools, item, dropIndex), FALSE)

(***************************************************************************)
(* The search box and what the two lists show.                             *)
(***************************************************************************)
\* the SearchBox reports no text as undefined
noValue == << "<undefined>" >>

\* the search box handler had the save effect run on every render
SetSearchTerm_Saves(newValue) ==
  /\ loadPhase # "idle"
  /\ searchTerm' = IF newValue = noValue \/ newValue = << >> THEN << >>
                   ELSE newValue
  /\ IssueSaves(1, selectedTools, FALSE)
  /\ last' = NoCall
  /\ UNCHANGED << variant, selectedTools, availableTools, catalogFetch, store,
                  loadPhase, loadResp, faulted, nOps, rapid >>

\* onChange={(_, newValue) => setSearchTerm(newValue || '')}; the save
\* effect depends on selectedTools alone and does not run
SetSearchTerm(newValue) ==
  /\ loadPhase # "idle"
  /\ searchTerm' = IF newValue = noValue \/ newValue = << >> THEN << >>
                   ELSE newValue
  /\ last' = NoCall
  /\ UNCHANGED << variant, selectedTools, availableTools, catalogFetch, store,
                  loadPhase, loadResp, inflight, saveCalls, lastPut, faulted,
                  nOps, rapid >>

\* the "Selected Tools" list showing the tools the catalog has
selectedView_InCatalog ==
  SelectSeq(selectedTools,
            LAMBDA tool : \E k \in 1..Len(availableTools) :
                            availableTools[k].id = tool.id)

\* the rows of the "Selected Tools" list: items={selectedTools}
selectedView == selectedTools

\* "Move Up" of the row at index: disabled={index === 0}
canMoveUp(index) == index # 0

\* "Move Down" compared with the length instead of the last index
canMoveDown_OffByOne(index) == index # Len(selectedTools)

\* "Move Down": disabled={index === selectedTools.length - 1}
canMoveDown(index) == index # Len(selectedTools) - 1

\* "Add" of an available row: disabled={selectedTools.some(t => t.id === item.id)}
alreadySelected(item) ==
  \E k \in 1..Len(selectedTools) : selectedTools[k].id = item.id

\* the rows of the "Available Tools" list
filteredAvailableTools ==
  SelectSeq(availableTools,
            LAMBDA tool : includes(toLowerCase(Chars(tool.title)),
                                   toLowerCase(searchTerm)))

(***************************************************************************)
(* The variants that fetch, driven through what the page shows: the first  *)
(* and the last row moved up, down or onto itself (up on the first row and *)
(* down on the last are the calls the guard rejects), a row of the         *)
(* available list added, a tool removed by id (one id is of no tool), and, *)
(* while the selected list has a row to drop on, the first or the last row *)
(* or a tool that is in no row dropped on the first row (the rows carry no *)
(* data-index attribute, so dropIndex is parsed from '0').                 *)
(***************************************************************************)
Rows == { 0, Len(selectedTools) - 1 }
AddInputs == Range(availableTools)
RemoveInputs == { "2", "9" }
DropInputs ==
  IF selectedTools = << >> THEN { }
  ELSE { selectedTools[1], selectedTools[Len(selectedTools)],
         ITool("9", "Unknown") }
\* the search box cleared, or holding WORK
FilterInputs == { noValue, << "W", "O", "R", "K" >> }

Next ==
  \/ Mount
  \/ \E ok \in BOOLEAN : FetchSettle(ok)
  \/ \E fails \in BOOLEAN : LoadRespond(fails)
  \/ fetchSelectedTools
  \/ handleToolsFile
  \/ \E r \in BagToSet(inflight), ok \in BOOLEAN : SaveSettle(r, ok)
  \/ \E fromIndex \in Rows, d \in -1..1 : MoveItem(fromIndex, fromIndex + d)
  \/ \E tool \in AddInputs : AddTool(tool)
  \/ \E toolId \in RemoveInputs : RemoveTool(toolId)
  \/ \E item \in DropInputs : OnDrop(item, 0)
  \/ \E newValue \in FilterInputs : SetSearchTerm(newValue)

Spec == Init /\ [][Next]_vars

(***************************************************************************)
(* The static variant, its handlers called with arguments valid or not:    *)
(* indices from one below to one beyond the rows, tools selected and not,  *)
(* and their ids with one that no tool has.                                *)
(***************************************************************************)
InitOps ==
  /\ variant = "static"
  /\ selectedTools = staticSelected
  /\ availableTools = staticAvailable
  /\ searchTerm = << >>
  /\ catalogFetch = "idle"
  /\ store = NotFound
  /\ loadPhase = "none"
  /\ loadResp = NoResp
  /\ inflight = EmptyBag
  /\ saveCalls = 0
  /\ lastPut = << >>
  /\ faulted = FALSE
  /\ nOps = 0
  /\ last = NoCall
  /\ rapid = 0

Indices == -1..Len(selectedTools)
ToolInputs == { staticSelected[1], staticAvailable[1], staticAvailable[2] }
IdInputs == { t.id : t \in ToolInputs } \cup { "9" }
\* the search box cleared, or holding LEARN or b
TermInputs == { noValue, << "L", "E", "A", "R", "N" >>, << "b" >> }

NextOps ==
  \/ \E fromIndex \in Indices, toIndex \in Indices : MoveItem(fromIndex, toIndex)
  \/ \E tool \in ToolInputs : AddTool(tool)
  \/ \E toolId \in IdInputs : RemoveTool(toolId)
  \/ \E newValue \in TermInputs : SetSearchTerm(newValue)

SpecOps == InitOps /\ [][NextOps]_vars

(***************************************************************************)
(* Properties.                                                             *)
(***************************************************************************)
Ids(tools) == { tools[k].id : k \in { j \in 1..Len(tools) : IsObject(tools[j]) } }
ValidIndex(tools, i) == 0 <= i /\ i < Len(tools)

\* C1 (SpecOps): whatever addTool, removeTool and moveItem calls were made,
\* no two entries of the selection carry the same tool id.
C1_UniqueIds ==
  \A i, j \in 1..Len(selectedTools) :
    (i # j /\ IsObject(selectedTools[i]) /\ IsObject(selectedTools[j]))
      => selectedTools[i].id # selectedTools[j].id

\* an add of an id that is already selected ran on a selection of three
C1_Witness ==
  /\ last.op = "addTool"
  /\ last.id \in Ids(last.before)
  /\ Len(selectedTools) = 3

\* C2 (Spec), the claim as stated: once the load is done, a PUT of the
\* current selection was the last one issued, every PUT has settled and no
\* store call has failed, the file holds the selection, whatever order the
\* PUTs completed in.
C2_StoreHoldsSelection ==
  (/\ loadPhase = "done"
   /\ inflight = EmptyBag
   /\ ~faulted
   /\ saveCalls > 0
   /\ lastPut = stringify(selectedTools))
    => store = Found(stringify(selectedTools))

\* C3 (Spec), the claim as stated: at most one PUT is in flight.
C3_OneSaveInFlight == BagCardinality(inflight) <= 1

\* C4 (Spec), the claim as stated: three selection-changing calls made back
\* to back from a settled session, before any PUT settles, cause two PUTs
\* in all (so no more than two are issued by the time the third call
\* returns), and the last PUT carries the selection.
C4_ThreeMutationsTwoSaves ==
  rapid = 3 =>
    /\ BagCardinality(inflight) <= 2
    /\ lastPut = stringify(selectedTools)

\* C5 (Spec), the claim as stated: when the initial read failed with an
\* error other than not-found, initialization leaves the selection empty
\* and issues no PUT.
C5_FailedLoadWritesNothing ==
  (loadResp.kind = "error" /\ nOps = 0)
    => (selectedTools = << >> /\ saveCalls = 0)

\* the list each variant falls back to when the file does not exist
DefaultList == IF variant = "file" THEN defaultTools ELSE << >>

\* C6 (Spec), the claim as stated: when the initial read reported not-found
\* and initialization is over, the selection is the default list and
\* exactly one PUT was issued, carrying that list.
C6_DefaultSeeding ==
  (loadResp.kind = "notfound" /\ loadPhase = "done" /\ nOps = 0)
    => /\ selectedTools = DefaultList
       /\ saveCalls = 1
       /\ lastPut = stringify(DefaultList)

\* C7 (Spec), the claim as stated: removeTool with an id that is not
\* selected leaves the selection as it was and issues no PUT.
C7_AbsentRemoveNoSave ==
  (last.op = "removeTool" /\ ~last.threw /\ last.id \notin Ids(last.before))
    => (selectedTools = last.before /\ last.calls = 0)

\* C8 (SpecOps): adding a tool twice gives the selection a single add
\* gives, and an add of an id that is selected changes nothing.
C8_AddIdempotent ==
  /\ \A tool \in ToolInputs :
       LET once == Apply(addTool(selectedTools, tool), selectedTools)
       IN  Apply(addTool(once, tool), once) = once
  /\ (last.op = "addTool" /\ last.id \in Ids(last.before))
       => selectedTools = last.before

\* a tool was added at the end, and the next call added it again
C8_Witness ==
  /\ last.op = "addTool"
  /\ ~last.set
  /\ ~last.threw
  /\ Len(selectedTools) = 4
  /\ selectedTools[4] = last.tool
  /\ selectedTools = last.before

\* the list with the element at index `from` taken out and put back at
\* index `to` (0-based), the others keeping their order
Reinsert(tools, from, to) ==
  [k \in 1..Len(tools) |->
     IF k - 1 = to THEN tools[from + 1]
     ELSE IF from <= k - 1 /\ k - 1 < to THEN tools[k + 1]
     ELSE IF to < k - 1 /\ k - 1 <= from THEN tools[k - 1]
     ELSE tools[k]]

\* C9 (SpecOps): with both indices on rows, moveItem takes the element at
\* fromIndex out and puts it back at toIndex, the others keeping their
\* order; moveItem(0, 2) on [A,B,C,D] gives [B,C,A,D].
C9_MoveIsReinsert ==
  /\ \A from, to \in 0..(Len(selectedTools) - 1) :
       moveItem(selectedTools, from, to) = Update(Reinsert(selectedTools, from, to))
  /\ moveItem(<< "A", "B", "C", "D" >>, 0, 2) = Update(<< "B", "C", "A", "D" >>)
  /\ (/\ last.op = "moveItem"
      /\ ValidIndex(last.before, last.from)
      /\ ValidIndex(last.before, last.to))
       => selectedTools = Reinsert(last.before, last.from, last.to)

\* moveItem(0, 2) ran on four rows
C9_Witness ==
  /\ last.op = "moveItem"
  /\ last.from = 0
  /\ last.to = 2
  /\ Len(last.before) = 4
  /\ selectedTools =
       << last.before[2], last.before[3], last.before[1], last.before[4] >>

\* C10 (SpecOps), the claim as stated: moveItem with fromIndex or toIndex
\* off the rows leaves the selection as it was and raises nothing.
C10_InvalidMoveNoOp ==
  (/\ last.op = "moveItem"
   /\ (~ValidIndex(last.before, last.from) \/ ~ValidIndex(last.before, last.to)))
    => (selectedTools = last.before /\ ~last.threw)

\* C11 (Spec), the claim as stated: moveItem of a row onto its own index,
\* or with a toIndex the guard rejects, leaves the selection as it was and
\* issues no PUT.
C11_SameIndexMoveNoSave ==
  (/\ last.op = "moveItem"
   /\ (last.from = last.to \/ ~ValidIndex(last.before, last.to)))
    => (selectedTools = last.before /\ last.calls = 0)

\* C12 (Spec), the claim as stated: onDrop of a tool on a row leaves the
\* selection moveItem from the tool's index to that row leaves, with the PUT
\* a moveItem that reorders the rows issues, and does nothing when the tool
\* is in no row.
C12_DropIsMove ==
  (last.op = "onDrop" /\ ~last.threw) =>
    LET pos == FindPos(last.before, last.id)
        m == moveItem(last.before, pos - 1, last.to)
    IN  IF pos = 0
        THEN selectedTools = last.before /\ last.calls = 0
        ELSE /\ selectedTools = Apply(m, last.before)
             /\ (selectedTools # last.before => last.calls = 1)

\* C13 (Spec), the claim as stated: in the variants that store the
\* selection, every handler call that changed it issued a PUT.
C13_WriteThrough ==
  (/\ variant \in { "onedrive", "file" }
   /\ last.op # "none"
   /\ selectedTools # last.before)
    => last.calls >= 1

\* C14 (Spec), the claim as stated: a step that issues a PUT sends the
\* selection as it is in memory once the step is over.
C14_PayloadIsSelection ==
  [][saveCalls' # saveCalls => lastPut' = stringify(selectedTools')]_vars

\* two characters that are the same letter, whatever their case
SameLetter(a, b) ==
  a = b \/ \E n \in 1..26 : { a, b } = { Upper[n], Lower[n] }

\* `text` occurs somewhere in `title`, case ignored
Matches(title, text) ==
  \E i \in 0..(Len(title) - Len(text)) :
    \A j \in 1..Len(text) : SameLetter(title[i + j], text[j])

\* C15 (SpecOps): the available list shows the catalog's tools whose title
\* contains the search text, case ignored, in the catalog's order; a tool
\* that is selected stays in it.
C15_FilteredView ==
  /\ filteredAvailableTools =
       SelectSeq(availableTools,
                 LAMBDA tool : Matches(Chars(tool.title), searchTerm))
  /\ \A tool \in Range(availableTools) :
       (tool.id \in Ids(selectedTools) /\ Matches(Chars(tool.title), searchTerm))
         => tool \in Range(filteredAvailableTools)

\* LEARN is searched for: Browse Learning, which is selected, is the one
\* row shown
C15_Witness ==
  /\ searchTerm = << "L", "E", "A", "R", "N" >>
  /\ filteredAvailableTools = << staticAvailable[2] >>
  /\ staticAvailable[2].id \in Ids(selectedTools)

\* C16 (Spec): a step that changes the search text leaves the selection as
\* it was and issues no PUT.
C16_SetFilterFrame ==
  [][searchTerm' # searchTerm =>
       /\ selectedTools' = selectedTools
       /\ saveCalls' = saveCalls
       /\ inflight' = inflight]_vars

\* the search text was set while the loaded selection is shown
C16_Witness ==
  /\ variant = "onedrive"
  /\ loadPhase = "done"
  /\ selectedTools # << >>
  /\ searchTerm = << "W", "O", "R", "K" >>

\* the selection without the entries that carry the id
Without(tools, id) == SelectSeq(tools, LAMBDA tool : tool.id # id)

\* C17 (Spec): an entry whose id no catalog tool has (the catalog fetched,
\* failed or still empty) is shown in its row as it is, is what the file's
\* content put there, and is removed and moved like any other entry.
C17_StaleEntryTolerated ==
  /\ Len(selectedView) = Len(selectedTools)
  /\ \A k \in 1..Len(selectedTools) :
       selectedTools[k].id \notin Ids(availableTools)
         => selectedView[k] = selectedTools[k]
  /\ (loadResp.kind = "found" /\ loadPhase = "done" /\ nOps = 0)
       => selectedTools = loadResp.body
  /\ (/\ last.op = "removeTool"
      /\ last.id \in Ids(last.before)
      /\ last.id \notin Ids(availableTools))
       => (~last.threw /\ selectedTools = Without(last.before, last.id))
  /\ (/\ last.op = "moveItem"
      /\ ValidIndex(last.before, last.from)
      /\ ValidIndex(last.before, last.to)
      /\ last.before[last.from + 1].id \notin Ids(availableTools))
       => (~last.threw
           /\ selectedTools = Reinsert(last.before, last.from, last.to))

\* the catalog is fetched and has no Retired Tool; the file's two tools
\* were loaded and Retired Tool was moved up to the first row
C17_Witness ==
  /\ catalogFetch = "done"
  /\ last.op = "moveItem"
  /\ last.from = 1
  /\ last.to = 0
  /\ selectedView = << ITool("7", "Retired Tool"), ITool("2", "Time Mgr") >>
  /\ "7" \notin Ids(availableTools)

\* C18 (Spec): when the catalog fetch fails the catalog is empty and so is
\* the available list, the failure leaves the selection and the store's
\* requests as they were, and removeTool and moveItem go on working.
C18_FetchFailureDegrades ==
  /\ [](catalogFetch = "failed" =>
          /\ availableTools = << >>
          /\ filteredAvailableTools = << >>
          /\ (last.op = "removeTool" /\ last.id \in Ids(last.before))
               => (~last.threw /\ selectedTools = Without(last.before, last.id))
          /\ (/\ last.op = "moveItem"
              /\ ValidIndex(last.before, last.from)
              /\ ValidIndex(last.before, last.to))
               => (~last.threw
                   /\ selectedTools = Reinsert(last.before, last.from, last.to)))
  /\ [][(catalogFetch # "failed" /\ catalogFetch' = "failed") =>
          /\ selectedTools' = selectedTools
          /\ inflight' = inflight
          /\ saveCalls' = saveCalls]_vars

\* the fetch failed while tools were selected, and one was removed after
C18_Witness ==
  /\ catalogFetch = "failed"
  /\ last.op = "removeTool"
  /\ last.id \in Ids(last.before)
  /\ Len(selectedTools) + 1 = Len(last.before)
  /\ selectedTools # << >>

C20_ViewFlags ==
  /\ \A i \in 0..(Len(selectedTools) - 1) :
       /\ canMoveUp(i) <=> i > 0
       /\ canMoveDown(i) <=> i < Len(selectedTools) - 1
       /\ canMoveUp(i) =>
            moveItem(selectedTools, i, i - 1)
              = Update(Reinsert(selectedTools, i, i - 1))
       /\ canMoveDown(i) =>
            moveItem(selectedTools, i, i + 1)
              = Update(Reinsert(selectedTools, i, i + 1))
  /\ \A item \in Range(filteredAvailableTools) :
       /\ alreadySelected(item) <=> item.id \in Ids(selectedTools)
       /\ ~alreadySelected(item) =>
            addTool(selectedTools, item) = Update(selectedTools \o << item >>)

\* two tools are selected, the second one just added from the available
\* list, where its Add button is now disabled
C20_Witness ==
  /\ last.op = "addTool"
  /\ last.set
  /\ Len(selectedTools) >= 2
  /\ last.tool \in Range(filteredAvailableTools)
  /\ alreadySelected(last.tool)
  /\ canMoveUp(Len(selectedTools) - 1)
  /\ ~canMoveDown(Len(selectedTools) - 1)

C22_AddUnknownNoOp ==
  (/\ last.op = "addTool"
   /\ last.id \notin Ids(availableTools)
   /\ \A k \in 1..Len(last.before) : IsObject(last.before[k]))
    => (selectedTools = last.before /\ ~last.threw)

\* C23 (Spec), the claim as stated: once the read reported not-found and the
\* seeding is over, the selection is the default list, whether the PUT of
\* the defaults succeeded or failed.
C23_SeedingSurvivesSaveFailure ==
  (/\ variant = "file"
   /\ loadResp.kind = "notfound"
   /\ loadPhase = "done"
   /\ nOps = 0)
    => selectedTools = defaultTools

\* C24 (Spec), the claim as stated: the step that completes the initial
\* read (or the seeding) keeps every tool the handlers had put in the
\* selection before it.
C24_LoadKeepsEarlierMutation ==
  [][(loadPhase # "done" /\ loadPhase' = "done")
       => \A tool \in Range(selectedTools) : tool \in Range(selectedTools')]_vars

\* C25 (Spec), the claim as stated: while no handler has set the selection,
\* a file that exists keeps its content.
C25_NoWriteBeforeLoad ==
  [][(nOps' = 0 /\ store.exists) => store' = store]_vars

====
